---- MODULE Spec2Model ----
(***************************************************************************)
(* The room lottery's draw engine: the weighted room selector              *)
(* (getRandomRooms) and the weighted item drafter                          *)
(* (getRandomRoomItemsWithDetails) of the two storage backends, with the   *)
(* two HTTP routes that call them; the store's own operations on rooms,    *)
(* items, assignments and color themes; and the lottery screen that shows  *)
(* the drawn items.                                                        *)
(***************************************************************************)
EXTENDS Integers, Sequences, FiniteSets, TLC

VARIABLES
    backend,    \* "mem" (MemStorage) or "db" (DatabaseStorage): the exported storage
    rooms,      \* the stored rooms, in the order getRooms() returns them
    items,      \* the ids of the stored items
    roomItems,  \* the stored room-item assignments, in Map iteration order
    pc,         \* where the running request stands
    req,        \* the running request: operation, entry point, room id, count
    pool,       \* the shuffled pool of the last draw (shuffled / itemPool)
    result,     \* the sequence the operation returned
    status,     \* "none", "ok", "404" or "error" (the storage layer threw)
    calls,      \* the locals of the invocations in flight side by side
    del,        \* where a running deleteRoom stands
    ids,        \* the id counters of the store: roomId, itemId, roomItemId, colorThemeId
    colorThemes,\* the stored color themes, in Map iteration order
    ui          \* the state of the LotteryGame component and its requests in flight

vars == <<backend, rooms, items, roomItems, pc, req, pool, result, status,
          calls, del, ids, colorThemes, ui>>

----------------------------------------------------------------------------
(* Bounds of the model *)

MaxRooms == 3
MaxCount == 3
MaxAssignments == 3

\* the count a request without a usable count parameter gets
DefaultCount == 3

\* room.probability values: one pool copy per unit, none at or below zero
RoomProbabilities == {-1, 0, 1, 2}

\* the counts a caller may pass, negative and zero included
Counts == (-1)..MaxCount

\* the count query parameter: absent (parseInt gives NaN) or an integer
QueryCounts ==
    {[present |-> FALSE, n |-> 0]} \cup {[present |-> TRUE, n |-> c] : c \in Counts}

----------------------------------------------------------------------------
(* Helpers on sequences *)

SeqToSet(s) == {s[i] : i \in DOMAIN s}

Min(a, b) == IF a <= b THEN a ELSE b

Max(a, b) == IF a >= b THEN a ELSE b

\* Array.prototype.slice(0, n): a negative n counts from the end
Slice0(s, n) ==
    LET end == IF n < 0 THEN Max(Len(s) + n, 0) ELSE Min(n, Len(s))
    IN  SubSeq(s, 1, end)

\* n copies of e (none when n <= 0): for (let i = 0; i < n; i++) push(e)
Copies(e, n) == [i \in 1..n |-> e]

\* s without its first occurrence of e
RECURSIVE RemoveFirst(_, _)
RemoveFirst(s, e) ==
    IF s = <<>> THEN <<>>
    ELSE IF Head(s) = e THEN Tail(s)
         ELSE <<Head(s)>> \o RemoveFirst(Tail(s), e)

\* arr.sort(() => 0.5 - Math.random()): the comparator answers at random, so
\* the outcome is some rearrangement of the array; every one is possible
RECURSIVE Shuffles(_)
Shuffles(s) ==
    IF s = <<>> THEN {<<>>}
    ELSE UNION { {<<e>> \o t : t \in Shuffles(RemoveFirst(s, e))} : e \in SeqToSet(s) }

\* how often the element e occurs in s
RECURSIVE Occurrences(_, _)
Occurrences(s, e) ==
    IF s = <<>> THEN 0
    ELSE (IF Head(s) = e THEN 1 ELSE 0) + Occurrences(Tail(s), e)

Ids(s) == {s[i].id : i \in DOMAIN s}

----------------------------------------------------------------------------
(* The weighted room selector *)

\* WeightedRooms with one copy at least of every room (a faulty variant)
RECURSIVE WeightedRoomsAtLeastOnce(_)
WeightedRoomsAtLeastOnce(all) ==
    IF all = <<>> THEN <<>>
    ELSE Copies(Head(all), Max(1, Head(all).probability))
         \o WeightedRoomsAtLeastOnce(Tail(all))

\* weightedRooms: each room room.probability times, in catalog order
RECURSIVE WeightedRooms(_)
WeightedRooms(all) ==
    IF all = <<>> THEN <<>>
    ELSE Copies(Head(all), Head(all).probability) \o WeightedRooms(Tail(all))

\* SelectUnique without the selectedIds test (a faulty variant)
RECURSIVE SelectUniqueNoSeen(_, _, _, _)
SelectUniqueNoSeen(list, i, selected, count) ==
    IF i > Len(list) THEN selected
    ELSE LET next == Append(selected, list[i])
         IN  IF Len(next) = count THEN next
             ELSE SelectUniqueNoSeen(list, i + 1, next, count)

\* for (const room of list) { if (selectedIds.has(room.id)) continue;
\*   selectedRooms.push(room); selectedIds.add(room.id);
\*   if (selectedRooms.length === count) break; }
\* selectedIds always holds the ids of selectedRooms
RECURSIVE SelectUnique(_, _, _, _)
SelectUnique(list, i, selected, count) ==
    IF i > Len(list) THEN selected
    ELSE IF list[i].id \in Ids(selected)
         THEN SelectUnique(list, i + 1, selected, count)
         ELSE LET next == Append(selected, list[i])
              IN  IF Len(next) = count THEN next
                  ELSE SelectUnique(list, i + 1, next, count)

\* MemStorage.getRandomRooms after the shuffle: the walk, then the fallback
\* over the catalog when the walk found fewer than count rooms
MemSelectRooms(all, shuffled, count) ==
    LET selectedRooms == SelectUnique(shuffled, 1, <<>>, count)
    IN  IF Len(selectedRooms) < count
        THEN SelectUnique(all, 1, selectedRooms, count)
        ELSE selectedRooms

\* DatabaseStorage.getRandomRooms after the shuffle: the walk only
DbSelectRooms(all, shuffled, count) == SelectUnique(shuffled, 1, <<>>, count)

\* parseInt(req.query.count as string) || 3
ParseCount(q) == IF ~q.present \/ q.n = 0 THEN DefaultCount ELSE q.n

NoReq == [op |-> "none", via |-> "none", roomId |-> 0, count |-> 0]

\* no deleteRoom is running
NoDelete == [pc |-> "idle", id |-> 0]

\* the next free id above a set of ids in use: the counters start at 1 and
\* only grow
NextFree(used) == IF used = {} THEN 1 ELSE (CHOOSE m \in used : \A u \in used : u <= m) + 1

\* the id counters of a store holding these rooms, items and assignments
Counters(rs, its, ris) ==
    [roomId |-> NextFree(Ids(rs)), itemId |-> NextFree(its),
     roomItemId |-> NextFree(Ids(ris)), colorThemeId |-> 1]

\* the lottery screen before the component is mounted
NoGame == [gameState |-> "none"]

\* GET /api/rooms/random?count=q
RouteRandomRooms(q) ==
    /\ pc = "idle"
    /\ req' = [op |-> "getRandomRooms", via |-> "route", roomId |-> 0,
               count |-> ParseCount(q)]
    /\ pc' = "rooms_call"
    /\ UNCHANGED <<ids, colorThemes, ui, calls, del, backend, rooms, items, roomItems, pool, result, status>>

\* storage.getRandomRooms(c), called directly
CallGetRandomRooms(c) ==
    /\ pc = "idle"
    /\ req' = [op |-> "getRandomRooms", via |-> "direct", roomId |-> 0, count |-> c]
    /\ pc' = "rooms_call"
    /\ UNCHANGED <<ids, colorThemes, ui, calls, del, backend, rooms, items, roomItems, pool, result, status>>

\* MemStorage.getRandomRooms: the pool, the shuffle, the walk, the fallback
MemGetRandomRooms ==
    /\ pc = "rooms_call"
    /\ backend = "mem"
    /\ \E shuffled \in Shuffles(WeightedRooms(rooms)) :
         /\ pool' = shuffled
         /\ result' = MemSelectRooms(rooms, shuffled, req.count)
    /\ status' = "ok"
    /\ pc' = "done"
    /\ UNCHANGED <<ids, colorThemes, ui, calls, del, backend, rooms, items, roomItems, req>>

\* DatabaseStorage.getRandomRooms: the whole catalog when it has at most
\* count rooms, else the pool, the shuffle and the walk
DbGetRandomRooms ==
    /\ pc = "rooms_call"
    /\ backend = "db"
    /\ IF Len(rooms) <= req.count
       THEN /\ result' = rooms
            /\ pool' = pool
       ELSE \E shuffled \in Shuffles(WeightedRooms(rooms)) :
              /\ pool' = shuffled
              /\ result' = DbSelectRooms(rooms, shuffled, req.count)
    /\ status' = "ok"
    /\ pc' = "done"
    /\ UNCHANGED <<ids, colorThemes, ui, calls, del, backend, rooms, items, roomItems, req>>

\* the catalogs: ids 1..n in order, as the id counter and ORDER BY id give them
RoomCatalogs ==
    UNION { { [i \in 1..n |-> [id |-> i, probability |-> p[i],
                               itemsToShow |-> DefaultCount,
                               randomizeRepeats |-> TRUE]]
              : p \in [1..n -> RoomProbabilities] }
            : n \in 0..MaxRooms }

InitRooms ==
    /\ backend \in {"mem", "db"}
    /\ rooms \in RoomCatalogs
    /\ items = {}
    /\ roomItems = <<>>
    /\ pc = "idle"
    /\ req = NoReq
    /\ pool = <<>>
    /\ result = <<>>
    /\ status = "none"
    /\ calls = <<>>
    /\ del = NoDelete
    /\ ids = Counters(rooms, items, roomItems)
    /\ colorThemes = <<>>
    /\ ui = NoGame

NextRooms ==
    \/ \E q \in QueryCounts : RouteRandomRooms(q)
    \/ \E c \in Counts : CallGetRandomRooms(c)
    \/ MemGetRandomRooms
    \/ DbGetRandomRooms

SpecRooms == InitRooms /\ [][NextRooms]_vars

----------------------------------------------------------------------------
(* The weighted item drafter *)

\* x || d for a number x: d when x is 0
OrDefault(x, d) == IF x = 0 THEN d ELSE x

\* MemStorage.getRoomById: the sequence of the rooms with that id (none or one)
RoomById(id) == SelectSeq(rooms, LAMBDA r : r.id = id)

\* MemStorage.getRoomItemsWithDetails: the room's assignments whose item exists
RoomItemsWithDetails(roomId) ==
    SelectSeq(roomItems, LAMBDA ri : ri.roomId = roomId /\ ri.itemId \in items)

GuaranteedOf(all) == SelectSeq(all, LAMBDA ri : ri.isGuaranteed)

RandomOf(all) == SelectSeq(all, LAMBDA ri : ~ri.isGuaranteed)

\* const probability = roomItem.probability || 100;
\* const copies = Math.max(1, Math.floor(probability / 10));
CopiesOf(ri) == Max(1, OrDefault(ri.probability, 100) \div 10)

\* itemPool before the shuffle: each random item CopiesOf times, in order
RECURSIVE ItemPool(_)
ItemPool(randomItems) ==
    IF randomItems = <<>> THEN <<>>
    ELSE Copies(Head(randomItems), CopiesOf(Head(randomItems)))
         \o ItemPool(Tail(randomItems))

\* itemRepeatCounts.get(itemId) || 0, itemRepeatCounts being a set of pairs
RepeatCount(counts, itemId) ==
    IF \E c \in counts : c[1] = itemId
    THEN (CHOOSE c \in counts : c[1] = itemId)[2]
    ELSE 0

\* itemRepeatCounts.set(itemId, n)
SetRepeatCount(counts, itemId, n) ==
    {c \in counts : c[1] # itemId} \cup {<<itemId, n>>}

\* one iteration of the while loop, as Consume records it: the entry shifted
\* from itemPool, whether it was pushed to randomResults, and whether it was
\* pushed back to itemPool
Iteration(roomItem, taken, requeued) ==
    [roomItem |-> roomItem, taken |-> taken, requeued |-> requeued]

\* what the loop leaves behind: randomResults, the iterations it ran, in
\* order, and the itemPool it stopped with
LoopExit(randomResults, trace, itemPool) ==
    [results |-> randomResults, iterations |-> Len(trace), trace |-> trace,
     itemPool |-> itemPool]

\* Consume without the two repeat-rule tests (a faulty variant)
RECURSIVE ConsumeNoCap(_, _, _, _, _, _)
ConsumeNoCap(itemPool, counts, randomResults, remainingCount, randomize, trace) ==
    IF ~(Len(randomResults) < remainingCount /\ Len(itemPool) > 0)
    THEN LoopExit(randomResults, trace, itemPool)
    ELSE LET roomItem == Head(itemPool)
             rest == Tail(itemPool)
             currentRepeatCount == RepeatCount(counts, roomItem.itemId)
             pushed == Append(randomResults, roomItem)
             requeue == /\ randomize
                        /\ roomItem.canRepeat
                        /\ currentRepeatCount + 1 < OrDefault(roomItem.maxRepeats, 1)
                        /\ Len(pushed) < remainingCount
         IN  ConsumeNoCap(IF requeue THEN Append(rest, roomItem) ELSE rest,
                          SetRepeatCount(counts, roomItem.itemId, currentRepeatCount + 1),
                          pushed, remainingCount, randomize,
                          Append(trace, Iteration(roomItem, TRUE, requeue)))

\* Consume pushing a taken entry back whatever room.randomizeRepeats is (a
\* faulty variant)
RECURSIVE ConsumeRequeueAll(_, _, _, _, _, _)
ConsumeRequeueAll(itemPool, counts, randomResults, remainingCount, randomize, trace) ==
    IF ~(Len(randomResults) < remainingCount /\ Len(itemPool) > 0)
    THEN LoopExit(randomResults, trace, itemPool)
    ELSE LET roomItem == Head(itemPool)
             rest == Tail(itemPool)
             currentRepeatCount == RepeatCount(counts, roomItem.itemId)
             pushed == Append(randomResults, roomItem)
             requeue == /\ roomItem.canRepeat
                        /\ currentRepeatCount + 1 < OrDefault(roomItem.maxRepeats, 1)
                        /\ Len(pushed) < remainingCount
         IN  IF ~roomItem.canRepeat /\ currentRepeatCount > 0
             THEN ConsumeRequeueAll(rest, counts, randomResults, remainingCount,
                                    randomize,
                                    Append(trace, Iteration(roomItem, FALSE, FALSE)))
             ELSE IF /\ roomItem.canRepeat
                     /\ currentRepeatCount >= OrDefault(roomItem.maxRepeats, 1)
             THEN ConsumeRequeueAll(rest, counts, randomResults, remainingCount,
                                    randomize,
                                    Append(trace, Iteration(roomItem, FALSE, FALSE)))
             ELSE ConsumeRequeueAll(IF requeue THEN Append(rest, roomItem) ELSE rest,
                                    SetRepeatCount(counts, roomItem.itemId,
                                                   currentRepeatCount + 1),
                                    pushed, remainingCount, randomize,
                                    Append(trace, Iteration(roomItem, TRUE, requeue)))

\* the while loop of getRandomRoomItemsWithDetails: shift an entry, skip it
\* when its repeat rule forbids it, else push it to randomResults, count it
\* under its itemId and, when the room randomizes repeats, queue it again
RECURSIVE Consume(_, _, _, _, _, _)
Consume(itemPool, counts, randomResults, remainingCount, randomize, trace) ==
    IF ~(Len(randomResults) < remainingCount /\ Len(itemPool) > 0)
    THEN LoopExit(randomResults, trace, itemPool)
    ELSE LET roomItem == Head(itemPool)
             rest == Tail(itemPool)
             currentRepeatCount == RepeatCount(counts, roomItem.itemId)
             pushed == Append(randomResults, roomItem)
             requeue == /\ randomize
                        /\ roomItem.canRepeat
                        /\ currentRepeatCount + 1 < OrDefault(roomItem.maxRepeats, 1)
                        /\ Len(pushed) < remainingCount
         IN  IF ~roomItem.canRepeat /\ currentRepeatCount > 0
             THEN Consume(rest, counts, randomResults, remainingCount, randomize,
                          Append(trace, Iteration(roomItem, FALSE, FALSE)))
             ELSE IF /\ roomItem.canRepeat
                     /\ currentRepeatCount >= OrDefault(roomItem.maxRepeats, 1)
             THEN Consume(rest, counts, randomResults, remainingCount, randomize,
                          Append(trace, Iteration(roomItem, FALSE, FALSE)))
             ELSE Consume(IF requeue THEN Append(rest, roomItem) ELSE rest,
                          SetRepeatCount(counts, roomItem.itemId, currentRepeatCount + 1),
                          pushed, remainingCount, randomize,
                          Append(trace, Iteration(roomItem, TRUE, requeue)))

\* GuaranteedOnly without the slice (a faulty variant)
GuaranteedUncut(guaranteedItems, count) == guaranteedItems

\* if (guaranteedItems.length >= count) return guaranteedItems.slice(0, count)
GuaranteedOnly(guaranteedItems, count) == Slice0(guaranteedItems, count)

\* WithAllRandom with the random items first (a faulty variant)
WithAllRandomFirst(guaranteedItems, randomItems) == randomItems \o guaranteedItems

\* WithAllRandom taking every random item a second time (a faulty variant)
WithAllRandomTwice(guaranteedItems, randomItems) ==
    guaranteedItems \o randomItems \o randomItems

\* return [...result, ...randomItems]
WithAllRandom(guaranteedItems, randomItems) == guaranteedItems \o randomItems

\* WithSelected without the guaranteed items (a faulty variant)
WithSelectedOnly(guaranteedItems, randomResults) == randomResults

\* return [...result, ...randomResults]
WithSelected(guaranteedItems, randomResults) == guaranteedItems \o randomResults

\* storage.getRandomRoomItemsWithDetails(r, c), called directly
CallGetRandomRoomItems(r, c) ==
    /\ pc = "idle"
    /\ req' = [op |-> "getRandomRoomItems", via |-> "direct", roomId |-> r, count |-> c]
    /\ pc' = "items_call"
    /\ UNCHANGED <<ids, colorThemes, ui, calls, del, backend, rooms, items, roomItems, pool, result, status>>

\* MemStorage.getRandomRoomItemsWithDetails(req.roomId, req.count)
MemGetRandomRoomItems ==
    /\ pc = "items_call"
    /\ backend = "mem"
    /\ LET room == RoomById(req.roomId)
           allRoomItems == RoomItemsWithDetails(req.roomId)
           guaranteedItems == GuaranteedOf(allRoomItems)
           randomItems == RandomOf(allRoomItems)
           remainingCount == req.count - Len(guaranteedItems)
       IN  IF room = <<>>
           THEN /\ status' = "error"
                /\ UNCHANGED <<pool, result>>
           ELSE IF Len(guaranteedItems) >= req.count
           THEN /\ result' = GuaranteedOnly(guaranteedItems, req.count)
                /\ status' = "ok"
                /\ pool' = pool
           ELSE IF Len(randomItems) = 0 \/ remainingCount <= 0
           THEN /\ result' = guaranteedItems
                /\ status' = "ok"
                /\ pool' = pool
           ELSE IF Len(randomItems) <= remainingCount
           THEN /\ result' = WithAllRandom(guaranteedItems, randomItems)
                /\ status' = "ok"
                /\ pool' = pool
           ELSE \E shuffled \in Shuffles(ItemPool(randomItems)) :
                  /\ pool' = shuffled
                  /\ result' = WithSelected(guaranteedItems,
                                    Consume(shuffled, {}, <<>>, remainingCount,
                                            room[1].randomizeRepeats, <<>>).results)
                  /\ status' = "ok"
    /\ pc' = "done"
    /\ UNCHANGED <<ids, colorThemes, ui, calls, del, backend, rooms, items, roomItems, req>>

\* DatabaseStorage.getRandomRoomItemsWithDetails(req.roomId, req.count): no
\* guaranteed items here; every assignment goes through the pool
DbGetRandomRoomItems ==
    /\ pc = "items_call"
    /\ backend = "db"
    /\ LET room == RoomById(req.roomId)
           allRoomItems == RoomItemsWithDetails(req.roomId)
       IN  IF room = <<>>
           THEN /\ status' = "error"
                /\ UNCHANGED <<pool, result>>
           ELSE IF Len(allRoomItems) <= req.count
           THEN /\ result' = allRoomItems
                /\ status' = "ok"
                /\ pool' = pool
           ELSE \E shuffled \in Shuffles(ItemPool(allRoomItems)) :
                  /\ pool' = shuffled
                  /\ result' = Consume(shuffled, {}, <<>>, req.count,
                                       room[1].randomizeRepeats, <<>>).results
                  /\ status' = "ok"
    /\ pc' = "done"
    /\ UNCHANGED <<ids, colorThemes, ui, calls, del, backend, rooms, items, roomItems, req>>

\* GET /api/rooms/:id/random-items: 404 without the room, the empty list when
\* the room shows no items, else the storage layer's draw of itemsToShow items
RouteRandomItems(r) ==
    /\ pc = "idle"
    /\ LET room == RoomById(r)
       IN  IF room = <<>>
           THEN /\ req' = [op |-> "getRandomRoomItems", via |-> "route",
                           roomId |-> r, count |-> 0]
                /\ status' = "404"
                /\ pc' = "done"
           ELSE /\ req' = [op |-> "getRandomRoomItems", via |-> "route",
                           roomId |-> r, count |-> room[1].itemsToShow]
                /\ IF room[1].itemsToShow > 0
                   THEN /\ pc' = "items_call"
                        /\ status' = status
                   ELSE /\ pc' = "done"
                        /\ status' = "ok"
    /\ UNCHANGED <<ids, colorThemes, ui, calls, del, backend, rooms, items, roomItems, pool, result>>

\* the assignments the stores of the model are made of.  A random one has
\* an item of its own or shares item 1 with the first assignment, one pool
\* copy (probability 5) or two (20), and a repeat rule: canRepeat false, or
\* true with maxRepeats 0 (counted as 1 by the drafter), 1 (the default) or
\* 2.  Of a guaranteed one the drafter reads isGuaranteed only.
RandomShapes ==
    {[shared |-> FALSE, probability |-> 5, canRepeat |-> FALSE, maxRepeats |-> 1],
     [shared |-> FALSE, probability |-> 5, canRepeat |-> TRUE, maxRepeats |-> 0],
     [shared |-> FALSE, probability |-> 5, canRepeat |-> TRUE, maxRepeats |-> 1],
     [shared |-> FALSE, probability |-> 5, canRepeat |-> TRUE, maxRepeats |-> 2],
     [shared |-> FALSE, probability |-> 20, canRepeat |-> FALSE, maxRepeats |-> 1],
     [shared |-> FALSE, probability |-> 20, canRepeat |-> TRUE, maxRepeats |-> 2],
     [shared |-> TRUE, probability |-> 5, canRepeat |-> FALSE, maxRepeats |-> 1],
     [shared |-> TRUE, probability |-> 5, canRepeat |-> TRUE, maxRepeats |-> 2]}

AssignmentShapes ==
    {[shared |-> sh.shared, probability |-> sh.probability,
      canRepeat |-> sh.canRepeat, maxRepeats |-> sh.maxRepeats,
      isGuaranteed |-> FALSE] : sh \in RandomShapes}
    \cup
    {[shared |-> FALSE, probability |-> 20, canRepeat |-> TRUE, maxRepeats |-> 1,
      isGuaranteed |-> TRUE]}

\* the assignment stores of room 1: ids 1..n in insertion order
AssignmentStores ==
    UNION { { [k \in 1..n |->
                 [id |-> k, roomId |-> 1,
                  itemId |-> IF sh[k].shared THEN 1 ELSE k,
                  probability |-> sh[k].probability,
                  canRepeat |-> sh[k].canRepeat,
                  maxRepeats |-> sh[k].maxRepeats,
                  isGuaranteed |-> sh[k].isGuaranteed]]
              : sh \in [1..n -> AssignmentShapes] }
            : n \in 0..MaxAssignments }

\* the pool of the repeat scenario: one repeatable assignment, cap 3
ScenarioStore ==
    <<[id |-> 1, roomId |-> 1, itemId |-> 1, probability |-> 100,
       canRepeat |-> TRUE, maxRepeats |-> 3, isGuaranteed |-> FALSE]>>

\* probabilities the column can hold around the steps of the weight: below
\* zero, zero, 1 to 9, a ten, between two tens
Weights == {-5, 0, 1, 9, 10, 19, 20}

\* the stores of the weights: an assignment of each weight next to one with
\* a single pool copy
WeightStores ==
    {<<[id |-> 1, roomId |-> 1, itemId |-> 1, probability |-> w,
        canRepeat |-> FALSE, maxRepeats |-> 1, isGuaranteed |-> FALSE],
       [id |-> 2, roomId |-> 1, itemId |-> 2, probability |-> 5,
        canRepeat |-> FALSE, maxRepeats |-> 1, isGuaranteed |-> FALSE]>>
     : w \in Weights}

ItemIdsOf(store) == {store[k].itemId : k \in DOMAIN store}

InitItems ==
    /\ backend = "mem"
    /\ \E rr \in BOOLEAN :
         rooms = <<[id |-> 1, probability |-> 1, itemsToShow |-> DefaultCount,
                    randomizeRepeats |-> rr]>>
    /\ roomItems \in AssignmentStores \cup {ScenarioStore} \cup WeightStores
    /\ items = ItemIdsOf(roomItems)
    /\ pc = "idle"
    /\ req = NoReq
    /\ pool = <<>>
    /\ result = <<>>
    /\ status = "none"
    /\ calls = <<>>
    /\ del = NoDelete
    /\ ids = Counters(rooms, items, roomItems)
    /\ colorThemes = <<>>
    /\ ui = NoGame

NextItems ==
    \/ \E c \in Counts : CallGetRandomRoomItems(1, c)
    \/ MemGetRandomRoomItems

SpecItems == InitItems /\ [][NextItems]_vars

\* the stores of the loop's push-back rule: guaranteed assignments, ones that
\* do not repeat (an item of their own or item 1 again, one pool copy) and
\* repeatable ones with maxRepeats 0 or 2 (one pool copy or two)
LoopStores ==
    {store \in AssignmentStores :
        \A k \in DOMAIN store :
            \/ store[k].isGuaranteed
            \/ ~store[k].canRepeat /\ store[k].probability < 10
            \/ store[k].canRepeat /\ store[k].maxRepeats # 1 /\ store[k].itemId = k}

InitLoop ==
    /\ backend = "mem"
    /\ \E rr \in BOOLEAN :
         rooms = <<[id |-> 1, probability |-> 1, itemsToShow |-> DefaultCount,
                    randomizeRepeats |-> rr]>>
    /\ roomItems \in LoopStores
    /\ items = ItemIdsOf(roomItems)
    /\ pc = "idle"
    /\ req = NoReq
    /\ pool = <<>>
    /\ result = <<>>
    /\ status = "none"
    /\ calls = <<>>
    /\ del = NoDelete
    /\ ids = Counters(rooms, items, roomItems)
    /\ colorThemes = <<>>
    /\ ui = NoGame

SpecLoop == InitLoop /\ [][NextItems]_vars

\* the stores of the repeat cap: non-guaranteed assignments, each of an item
\* of its own, with two pool copies (no repeats, or maxRepeats 2) or
\* repeatable with maxRepeats 0
CapStores ==
    {store \in AssignmentStores :
        \A k \in DOMAIN store :
            /\ ~store[k].isGuaranteed
            /\ store[k].itemId = k
            /\ \/ store[k].probability >= 10
               \/ store[k].canRepeat /\ store[k].maxRepeats = 0}

InitCap ==
    /\ backend = "mem"
    /\ \E rr \in BOOLEAN :
         rooms = <<[id |-> 1, probability |-> 1, itemsToShow |-> DefaultCount,
                    randomizeRepeats |-> rr]>>
    /\ roomItems \in CapStores \cup {ScenarioStore}
    /\ items = ItemIdsOf(roomItems)
    /\ pc = "idle"
    /\ req = NoReq
    /\ pool = <<>>
    /\ result = <<>>
    /\ status = "none"
    /\ calls = <<>>
    /\ del = NoDelete
    /\ ids = Counters(rooms, items, roomItems)
    /\ colorThemes = <<>>
    /\ ui = NoGame

SpecCap == InitCap /\ [][NextItems]_vars

\* the route's states: room 1 showing 0..MaxCount items, and either backend;
\* DatabaseStorage.assignItemToRoom keeps one assignment per item of a room
InitRoute ==
    /\ backend \in {"mem", "db"}
    /\ \E rr \in BOOLEAN, n \in 0..MaxCount :
         rooms = <<[id |-> 1, probability |-> 1, itemsToShow |-> n,
                    randomizeRepeats |-> rr]>>
    /\ roomItems \in AssignmentStores
    /\ backend = "db" => Cardinality(ItemIdsOf(roomItems)) = Len(roomItems)
    /\ items = ItemIdsOf(roomItems)
    /\ pc = "idle"
    /\ req = NoReq
    /\ pool = <<>>
    /\ result = <<>>
    /\ status = "none"
    /\ calls = <<>>
    /\ del = NoDelete
    /\ ids = Counters(rooms, items, roomItems)
    /\ colorThemes = <<>>
    /\ ui = NoGame

NextRoute ==
    \/ \E r \in {1, 2} : RouteRandomItems(r)
    \/ MemGetRandomRoomItems
    \/ DbGetRandomRoomItems

SpecRoute == InitRoute /\ [][NextRoute]_vars

----------------------------------------------------------------------------
(* Two draws in flight side by side.  An invocation gives way to the other  *)
(* one at each await: after it read the catalog, the room, the assignments. *)

Invocations == {1, 2}

IdleCall ==
    [pc |-> "idle", op |-> "none", roomId |-> 0, count |-> 0,
     room |-> <<>>, all |-> <<>>, result |-> <<>>, status |-> "none"]

\* Locals with one set of locals for all invocations (a faulty variant)
LocalsOfFirst(p) == calls[1]

\* room, allRooms, allRoomItems and the parameters of invocation p: consts
\* and parameters of the method, one set for each invocation
Locals(p) == calls[p]

\* what getRandomRooms may return once allRooms is read
RoomDraws(all, count) ==
    IF backend = "mem"
    THEN {MemSelectRooms(all, shuffled, count) :
            shuffled \in Shuffles(WeightedRooms(all))}
    ELSE IF Len(all) <= count THEN {all}
    ELSE {DbSelectRooms(all, shuffled, count) :
            shuffled \in Shuffles(WeightedRooms(all))}

\* what MemStorage's drafter may return once room and allRoomItems are read
MemDrafts(room, allRoomItems, count) ==
    LET guaranteedItems == GuaranteedOf(allRoomItems)
        randomItems == RandomOf(allRoomItems)
        remainingCount == count - Len(guaranteedItems)
    IN  IF Len(guaranteedItems) >= count
        THEN {GuaranteedOnly(guaranteedItems, count)}
        ELSE IF Len(randomItems) = 0 \/ remainingCount <= 0
        THEN {guaranteedItems}
        ELSE IF Len(randomItems) <= remainingCount
        THEN {WithAllRandom(guaranteedItems, randomItems)}
        ELSE {WithSelected(guaranteedItems,
                           Consume(shuffled, {}, <<>>, remainingCount,
                                   room.randomizeRepeats, <<>>).results) :
                shuffled \in Shuffles(ItemPool(randomItems))}

\* what DatabaseStorage's drafter may return once they are read
DbDrafts(room, allRoomItems, count) ==
    IF Len(allRoomItems) <= count THEN {allRoomItems}
    ELSE {Consume(shuffled, {}, <<>>, count, room.randomizeRepeats, <<>>).results :
            shuffled \in Shuffles(ItemPool(allRoomItems))}

Drafts(room, allRoomItems, count) ==
    IF backend = "mem" THEN MemDrafts(room, allRoomItems, count)
    ELSE DbDrafts(room, allRoomItems, count)

StoreAndRequestUnchanged ==
    UNCHANGED <<ids, colorThemes, ui, backend, rooms, items, roomItems, pc, req, pool, result,
                status, del>>

\* invocation p is called: storage.getRandomRooms(c) or
\* storage.getRandomRoomItemsWithDetails(r, c)
Invoke(p, op, r, c) ==
    /\ calls[p].pc = "idle"
    /\ calls' = [calls EXCEPT ![p] =
                   [IdleCall EXCEPT !.pc = "called", !.op = op,
                                    !.roomId = r, !.count = c]]
    /\ StoreAndRequestUnchanged

\* const allRooms = await this.getRooms()
ReadRooms(p) ==
    /\ calls[p].pc = "called"
    /\ calls[p].op = "getRandomRooms"
    /\ calls' = [calls EXCEPT ![p].all = rooms, ![p].pc = "rooms_read"]
    /\ StoreAndRequestUnchanged

\* the rest of getRandomRooms, which awaits nothing
SelectRooms(p) ==
    /\ calls[p].pc = "rooms_read"
    /\ \E drawn \in RoomDraws(Locals(p).all, Locals(p).count) :
         calls' = [calls EXCEPT ![p].result = drawn, ![p].status = "ok",
                                ![p].pc = "done"]
    /\ StoreAndRequestUnchanged

\* const room = await this.getRoomById(roomId)
ReadRoom(p) ==
    /\ calls[p].pc = "called"
    /\ calls[p].op = "getRandomRoomItems"
    /\ calls' = [calls EXCEPT ![p].room = RoomById(calls[p].roomId),
                              ![p].pc = "room_read"]
    /\ StoreAndRequestUnchanged

\* if (!room) throw ...;
\* const allRoomItems = await this.getRoomItemsWithDetails(roomId)
ReadRoomItems(p) ==
    /\ calls[p].pc = "room_read"
    /\ IF Locals(p).room = <<>>
       THEN calls' = [calls EXCEPT ![p].status = "error", ![p].pc = "done"]
       ELSE calls' = [calls EXCEPT
                        ![p].all = RoomItemsWithDetails(Locals(p).roomId),
                        ![p].pc = "items_read"]
    /\ StoreAndRequestUnchanged

\* the rest of getRandomRoomItemsWithDetails, which awaits nothing
Draft(p) ==
    /\ calls[p].pc = "items_read"
    /\ \E drawn \in Drafts(Locals(p).room[1], Locals(p).all, Locals(p).count) :
         calls' = [calls EXCEPT ![p].result = drawn, ![p].status = "ok",
                                ![p].pc = "done"]
    /\ StoreAndRequestUnchanged

\* the assignments of the stores two draws share: a guaranteed one, a
\* repeatable one with two pool copies, one that does not repeat
SharedShapes ==
    {sh \in AssignmentShapes :
        /\ ~sh.shared
        /\ \/ sh.isGuaranteed
           \/ sh.canRepeat /\ sh.maxRepeats > 1 /\ sh.probability > 10
           \/ ~sh.canRepeat /\ sh.probability < 10}

\* the stores two requests share: two assignments of room 1, each with an item
\* of its own
SharedStores ==
    {store \in AssignmentStores :
        /\ Len(store) = 2
        /\ \A k \in DOMAIN store :
              \E sh \in SharedShapes :
                 /\ store[k].isGuaranteed = sh.isGuaranteed
                 /\ store[k].canRepeat = sh.canRepeat
                 /\ store[k].maxRepeats = sh.maxRepeats
                 /\ store[k].probability = sh.probability
                 /\ store[k].itemId = k}

InitConcurrent ==
    /\ backend \in {"mem", "db"}
    /\ \E catalog \in RoomCatalogs :
         /\ Len(catalog) \in {1, 2}
         /\ \A i \in DOMAIN catalog : catalog[i].probability = i
         /\ rooms = catalog
    /\ roomItems \in SharedStores
    /\ items = ItemIdsOf(roomItems)
    /\ pc = "idle"
    /\ req = NoReq
    /\ pool = <<>>
    /\ result = <<>>
    /\ status = "none"
    /\ calls = [p \in Invocations |-> IdleCall]
    /\ del = NoDelete
    /\ ids = Counters(rooms, items, roomItems)
    /\ colorThemes = <<>>
    /\ ui = NoGame

NextConcurrent ==
    \E p \in Invocations :
        \/ \E c \in {1, 2} : Invoke(p, "getRandomRooms", 0, c)
        \/ \E r \in {1, 2}, c \in {1, 2} : Invoke(p, "getRandomRoomItems", r, c)
        \/ ReadRooms(p)
        \/ SelectRooms(p)
        \/ ReadRoom(p)
        \/ ReadRoomItems(p)
        \/ Draft(p)

SpecConcurrent == InitConcurrent /\ [][NextConcurrent]_vars

----------------------------------------------------------------------------
(* GET /api/rooms/:id/random-items next to DELETE /api/rooms/:id.  With     *)
(* DatabaseStorage every await of a handler is a query, and the other       *)
(* request's queries may run in between; MemStorage's methods await nothing *)
(* that is pending, so a handler runs to its response before the next       *)
(* request's handler starts.                                                *)

WithoutRoom(id) == SelectSeq(rooms, LAMBDA r : r.id # id)

WithoutAssignmentsOf(id) == SelectSeq(roomItems, LAMBDA ri : ri.roomId # id)

RequestUnchanged ==
    UNCHANGED <<ids, colorThemes, ui, backend, items, pc, req, pool, result, status, calls>>

\* MemStorage.deleteRoom(id): nothing without the room, else the room and
\* its assignments go
MemDeleteRoom(id) ==
    /\ backend = "mem"
    /\ del.pc = "idle"
    /\ pc \in {"idle", "done"}
    /\ IF RoomById(id) = <<>>
       THEN UNCHANGED <<rooms, roomItems>>
       ELSE /\ rooms' = WithoutRoom(id)
            /\ roomItems' = WithoutAssignmentsOf(id)
    /\ del' = [pc |-> "done", id |-> id]
    /\ RequestUnchanged

\* DatabaseStorage.deleteRoom(id), first query: the room's assignments
DbDeleteRoomItems(id) ==
    /\ backend = "db"
    /\ del.pc = "idle"
    /\ roomItems' = WithoutAssignmentsOf(id)
    /\ del' = [pc |-> "roomItems_deleted", id |-> id]
    /\ rooms' = rooms
    /\ RequestUnchanged

\* DatabaseStorage.deleteRoom(id), second query: the room
DbDeleteRoomRow ==
    /\ backend = "db"
    /\ del.pc = "roomItems_deleted"
    /\ rooms' = WithoutRoom(del.id)
    /\ del' = [del EXCEPT !.pc = "done"]
    /\ roomItems' = roomItems
    /\ RequestUnchanged

InitRace ==
    /\ backend \in {"mem", "db"}
    /\ \E rr \in BOOLEAN, n \in 0..MaxCount :
         rooms = <<[id |-> 1, probability |-> 1, itemsToShow |-> n,
                    randomizeRepeats |-> rr]>>
    /\ roomItems \in SharedStores
    /\ items = ItemIdsOf(roomItems)
    /\ pc = "idle"
    /\ req = NoReq
    /\ pool = <<>>
    /\ result = <<>>
    /\ status = "none"
    /\ calls = <<>>
    /\ del = NoDelete
    /\ ids = Counters(rooms, items, roomItems)
    /\ colorThemes = <<>>
    /\ ui = NoGame

NextRace ==
    \/ \E r \in {1, 2} : RouteRandomItems(r)
    \/ MemGetRandomRoomItems
    \/ DbGetRandomRoomItems
    \/ \E id \in {1, 2} : MemDeleteRoom(id)
    \/ \E id \in {1, 2} : DbDeleteRoomItems(id)
    \/ DbDeleteRoomRow

SpecRace == InitRace /\ [][NextRace]_vars

----------------------------------------------------------------------------
(* The store's own operations: createRoom, deleteRoom, createItem,         *)
(* deleteItem, assignItemToRoom, updateRoomItemAssignment and              *)
(* removeItemFromRoom, called one after the other.  The run starts from    *)
(* the empty store (every sample row deleted), the ids counted from 1.     *)

\* the number of rooms, of items and of assignments a run creates
MaxCreated == 2

\* o.f !== undefined ? o.f : d, an absent field being undefined
Get(o, f, d) == IF f \in DOMAIN o THEN o[f] ELSE d

\* { ...o, ...u }
Spread(o, u) ==
    [f \in DOMAIN o \cup DOMAIN u |-> IF f \in DOMAIN u THEN u[f] ELSE o[f]]

\* a properties object without a field
NoProperties == [f \in {} |-> 0]

\* the properties objects a caller passes: none, or the guaranteed flag
Properties == {NoProperties, [isGuaranteed |-> TRUE]}

\* the InsertRoom objects a caller passes: no color, or a themed one
InsertRooms ==
    {[probability |-> 1, color |-> ""],
     [probability |-> 1, color |-> "amber"]}

\* the room createRoom stores, the same in both backends (the columns'
\* defaults fill what DatabaseStorage leaves out)
NewRoom(id, room) ==
    [id |-> id, probability |-> room.probability,
     itemsToShow |-> OrDefault(Get(room, "itemsToShow", 0), 3),
     randomizeRepeats |-> Get(room, "randomizeRepeats", TRUE)]

\* MemStorage.createRoomItem(item) under the id the counter gives
NewRoomItem(id, item) ==
    [id |-> id, roomId |-> item.roomId, itemId |-> item.itemId,
     probability |-> OrDefault(Get(item, "probability", 0), 100),
     canRepeat |-> Get(item, "canRepeat", TRUE),
     maxRepeats |-> Get(item, "maxRepeats", 1),
     isGuaranteed |-> Get(item, "isGuaranteed", FALSE)]

\* the probabilities addRoomItems draws for an assignment, 50 to 99, of which
\* the model keeps the first
ThemeProbabilities == {50}

\* MemStorage.addRoomItems: an assignment for every item of the theme, each
\* with a probability and a repeat flag of its own, under consecutive ids
ThemeAssignments(roomId, themeItems) ==
    LET n == Cardinality(themeItems)
        \* this.items.values(): insertion order, the ids ascending
        ordered == CHOOSE s \in [1..n -> themeItems] :
                       \A i, j \in 1..n : i < j => s[i] < s[j]
    IN  {[k \in 1..n |->
             [id |-> ids.roomItemId + k - 1, roomId |-> roomId,
              itemId |-> ordered[k], probability |-> draw[k].probability,
              canRepeat |-> draw[k].canRepeat, maxRepeats |-> 1,
              isGuaranteed |-> FALSE]]
         : draw \in [1..n -> [probability : ThemeProbabilities,
                              canRepeat : BOOLEAN]]}

DrawUnchanged ==
    UNCHANGED <<backend, pc, req, pool, result, status, calls, del, colorThemes, ui>>

\* the sample items initItems() puts back into an empty item store: the
\* code has 28 of them, four to a color, and the model keeps two
SampleItems == 2

\* createRoom(room).  With a color MemStorage calls addRoomItems: initItems()
\* puts the sample items back when no item is stored, and every stored item
\* whose name is on the color's list (themeItems: the names are the callers')
\* is assigned to the room.  DatabaseStorage inserts the room alone.
CreateRoom(room, themeItems) ==
    /\ pc = "idle"
    /\ ids.roomId <= MaxCreated
    /\ rooms' = Append(rooms, NewRoom(ids.roomId, room))
    /\ IF backend = "mem" /\ room.color # ""
       THEN LET n == Cardinality(themeItems)
                initialized == IF items = {}
                               THEN ids.itemId..(ids.itemId + SampleItems - 1)
                               ELSE items
            IN  /\ items = {} => ids.itemId + SampleItems - 1 <= MaxCreated
                /\ themeItems \subseteq initialized
                /\ ids.roomItemId + n - 1 <= MaxCreated
                /\ items' = initialized
                /\ \E added \in ThemeAssignments(ids.roomId, themeItems) :
                       roomItems' = roomItems \o added
                /\ ids' = [ids EXCEPT !.roomId = @ + 1,
                                      !.itemId = IF items = {} THEN @ + SampleItems ELSE @,
                                      !.roomItemId = @ + n]
       ELSE /\ themeItems = {}
            /\ ids' = [ids EXCEPT !.roomId = @ + 1]
            /\ UNCHANGED <<items, roomItems>>
    /\ DrawUnchanged

\* deleteRoom(id): false without the room, else the room and its
\* assignments go
DeleteRoom(id) ==
    /\ pc = "idle"
    /\ IF RoomById(id) = <<>>
       THEN UNCHANGED <<rooms, roomItems>>
       ELSE /\ rooms' = WithoutRoom(id)
            /\ roomItems' = WithoutAssignmentsOf(id)
    /\ UNCHANGED <<items, ids>>
    /\ DrawUnchanged

\* createItem(item)
CreateItem ==
    /\ pc = "idle"
    /\ ids.itemId <= MaxCreated
    /\ items' = items \cup {ids.itemId}
    /\ ids' = [ids EXCEPT !.itemId = @ + 1]
    /\ UNCHANGED <<rooms, roomItems>>
    /\ DrawUnchanged

\* a faulty variant of the cascade: the item's assignments stay
KeepAssignmentsOfItem(id) == roomItems

\* the assignments left when item id goes
WithoutAssignmentsOfItem(id) == SelectSeq(roomItems, LAMBDA ri : ri.itemId # id)

\* deleteItem(id): false without the item, else the item and its
\* assignments go
DeleteItem(id) ==
    /\ pc = "idle"
    /\ IF id \notin items
       THEN UNCHANGED <<items, roomItems>>
       ELSE /\ items' = items \ {id}
            /\ roomItems' = WithoutAssignmentsOfItem(id)
    /\ UNCHANGED <<rooms, ids>>
    /\ DrawUnchanged

\* the assignments after updateRoomItem(id, properties) /
\* update(roomItems).set(properties).where(id)
WithUpdated(id, properties) ==
    [k \in DOMAIN roomItems |->
        IF roomItems[k].id = id THEN Spread(roomItems[k], properties)
        ELSE roomItems[k]]

\* the assignment object assignItemToRoom builds
Assignment(roomId, itemId, properties) ==
    [roomId |-> roomId, itemId |-> itemId,
     probability |-> Get(properties, "probability", 100),
     canRepeat |-> Get(properties, "canRepeat", TRUE),
     maxRepeats |-> Get(properties, "maxRepeats", 1)]

\* MemStorage.assignItemToRoom: the assignment, the guaranteed flag
\* included, goes to createRoomItem
MemAssignItemToRoom(roomId, itemId, properties) ==
    /\ ids.roomItemId <= MaxCreated
    /\ roomItems' = Append(roomItems,
           NewRoomItem(ids.roomItemId,
               Spread(Assignment(roomId, itemId, properties),
                      [isGuaranteed |-> Get(properties, "isGuaranteed", FALSE)])))
    /\ ids' = [ids EXCEPT !.roomItemId = @ + 1]

\* DatabaseStorage.assignItemToRoom's look-up: the rows of the pair
Existing(roomId, itemId) ==
    SelectSeq(roomItems, LAMBDA ri : ri.roomId = roomId /\ ri.itemId = itemId)

\* DatabaseStorage.assignItemToRoom: the pair's row is updated with the
\* properties when there is one; else the assignment is inserted, the
\* columns it leaves out (isGuaranteed) at their defaults
DbAssignItemToRoom(roomId, itemId, properties) ==
    LET existing == Existing(roomId, itemId)
    IN  IF existing # <<>>
        THEN /\ roomItems' = WithUpdated(existing[1].id, properties)
             /\ ids' = ids
        ELSE /\ ids.roomItemId <= MaxCreated
             /\ roomItems' = Append(roomItems,
                    Spread(Assignment(roomId, itemId, properties),
                           [id |-> ids.roomItemId, isGuaranteed |-> FALSE]))
             /\ ids' = [ids EXCEPT !.roomItemId = @ + 1]

\* assignItemToRoom(roomId, itemId, properties): throws without the room or
\* the item
AssignItemToRoom(roomId, itemId, properties) ==
    /\ pc = "idle"
    /\ IF RoomById(roomId) = <<>> \/ itemId \notin items
       THEN UNCHANGED <<roomItems, ids>>
       ELSE /\ IF backend = "mem"
               THEN MemAssignItemToRoom(roomId, itemId, properties)
               ELSE DbAssignItemToRoom(roomId, itemId, properties)
    /\ UNCHANGED <<rooms, items>>
    /\ DrawUnchanged

\* updateRoomItemAssignment(id, properties): undefined without the
\* assignment
UpdateRoomItemAssignment(id, properties) ==
    /\ pc = "idle"
    /\ IF id \notin Ids(roomItems)
       THEN roomItems' = roomItems
       ELSE /\ roomItems' = WithUpdated(id, properties)
    /\ UNCHANGED <<rooms, items, ids>>
    /\ DrawUnchanged

\* removeItemFromRoom(roomItemId)
RemoveItemFromRoom(roomItemId) ==
    /\ pc = "idle"
    /\ roomItems' = SelectSeq(roomItems, LAMBDA ri : ri.id # roomItemId)
    /\ UNCHANGED <<rooms, items, ids>>
    /\ DrawUnchanged

\* the ids a caller names: those the counters gave, and the next one
CreatedIds == 1..(MaxCreated + 1)

InitStore ==
    /\ backend \in {"mem", "db"}
    /\ rooms = <<>>
    /\ items = {}
    /\ roomItems = <<>>
    /\ pc = "idle"
    /\ req = NoReq
    /\ pool = <<>>
    /\ result = <<>>
    /\ status = "none"
    /\ calls = <<>>
    /\ del = NoDelete
    /\ ids = Counters(rooms, items, roomItems)
    /\ colorThemes = <<>>
    /\ ui = NoGame

NextStore ==
    \/ \E room \in InsertRooms, themeItems \in SUBSET CreatedIds :
           CreateRoom(room, themeItems)
    \/ \E id \in CreatedIds : DeleteRoom(id)
    \/ CreateItem
    \/ \E id \in CreatedIds : DeleteItem(id)
    \/ \E roomId \in CreatedIds, itemId \in CreatedIds, properties \in Properties :
           AssignItemToRoom(roomId, itemId, properties)
    \/ \E id \in CreatedIds, properties \in Properties :
           UpdateRoomItemAssignment(id, properties)
    \/ \E roomItemId \in CreatedIds : RemoveItemFromRoom(roomItemId)

SpecStore == InitStore /\ [][NextStore]_vars

----------------------------------------------------------------------------
(* Configuring a room and drawing from it: createRoom and updateRoom with  *)
(* an itemsToShow, POST /api/rooms/:roomId/items, then GET                 *)
(* /api/rooms/:id/random-items.                                            *)

\* the InsertRoom objects of the configuration: itemsToShow absent, zero or
\* two
ConfiguredRooms ==
    {[probability |-> 1, color |-> ""],
     [probability |-> 1, color |-> "", itemsToShow |-> 0],
     [probability |-> 1, color |-> "", itemsToShow |-> 2]}

\* the Partial<InsertRoom> objects updateRoom gets
RoomUpdates == {[itemsToShow |-> 0], [itemsToShow |-> 2]}

\* the rooms after updateRoom(id, roomUpdate): { ...room, ...roomUpdate } /
\* update(rooms).set(roomUpdate).where(id)
WithUpdatedRoom(id, roomUpdate) ==
    [k \in DOMAIN rooms |->
        IF rooms[k].id = id THEN Spread(rooms[k], roomUpdate) ELSE rooms[k]]

\* updateRoom(id, roomUpdate): undefined without the room
UpdateRoom(id, roomUpdate) ==
    /\ pc = "idle"
    /\ rooms' = WithUpdatedRoom(id, roomUpdate)
    /\ UNCHANGED <<items, roomItems, ids>>
    /\ DrawUnchanged

\* the bodies the form posts: no itemId, an item alone, an item with the
\* guaranteed flag, an item with every property
Bodies ==
    {NoProperties,
     [itemId |-> 1],
     [itemId |-> 1, isGuaranteed |-> TRUE],
     [itemId |-> 2, probability |-> 5, canRepeat |-> FALSE, maxRepeats |-> 1,
      isGuaranteed |-> TRUE]}

\* the properties the route hands to assignItemToRoom
RouteProperties(body) ==
    [probability |-> Get(body, "probability", 100),
     canRepeat |-> Get(body, "canRepeat", TRUE),
     maxRepeats |-> Get(body, "maxRepeats", 1)]

\* POST /api/rooms/:roomId/items: 400 without an itemId, 404 without the
\* room or the item, else 201 with the assignment assignItemToRoom made
PostRoomItems(roomId, body) ==
    /\ pc = "idle"
    /\ IF "itemId" \notin DOMAIN body
       THEN /\ status' = "400"
            /\ UNCHANGED <<roomItems, ids>>
       ELSE IF RoomById(roomId) = <<>> \/ body.itemId \notin items
            THEN /\ status' = "404"
                 /\ UNCHANGED <<roomItems, ids>>
            ELSE /\ IF backend = "mem"
                    THEN MemAssignItemToRoom(roomId, body.itemId, RouteProperties(body))
                    ELSE DbAssignItemToRoom(roomId, body.itemId, RouteProperties(body))
                 /\ status' = "201"
    /\ UNCHANGED <<rooms, items, backend, pc, req, pool, result, calls, del,
                   colorThemes, ui>>

NextAdmin ==
    \/ \E room \in ConfiguredRooms : CreateRoom(room, {})
    \/ \E id \in CreatedIds, roomUpdate \in RoomUpdates : UpdateRoom(id, roomUpdate)
    \/ CreateItem
    \/ \E roomId \in CreatedIds, body \in Bodies : PostRoomItems(roomId, body)
    \/ \E r \in CreatedIds : RouteRandomItems(r)
    \/ MemGetRandomRoomItems
    \/ DbGetRandomRoomItems

SpecAdmin == InitStore /\ [][NextAdmin]_vars

----------------------------------------------------------------------------
(* The in-memory color themes: createColorTheme, updateColorTheme,         *)
(* deleteColorTheme and setDefaultColorTheme, called one after the other   *)
(* on the three sample themes of the constructor.  Of a theme the model    *)
(* keeps the id and isDefault.                                             *)

\* initializeColorThemes: "Dark Mode" the default, "Light Mode", "Sunset"
SampleThemes ==
    <<[id |-> 1, isDefault |-> TRUE], [id |-> 2, isDefault |-> FALSE],
      [id |-> 3, isDefault |-> FALSE]>>

\* the InsertColorTheme objects and the updates a caller passes: isDefault
\* absent, true or false
ThemeInputs == {NoProperties, [isDefault |-> TRUE], [isDefault |-> FALSE]}

\* the ids a caller names: the sample themes', the created themes', the next
ThemeIds == 1..(Len(SampleThemes) + MaxCreated + 1)

ThemeById(id) == SelectSeq(colorThemes, LAMBDA t : t.id = id)

\* every default theme but keep set to non-default, the Map's order kept
Undefaulted(keep) ==
    [k \in DOMAIN colorThemes |->
        IF colorThemes[k].isDefault /\ colorThemes[k].id # keep
        THEN [colorThemes[k] EXCEPT !.isDefault = FALSE]
        ELSE colorThemes[k]]

\* colorThemes.set(id, theme) on themes: in place for a key the Map has, at
\* the end for a new one
SetTheme(themes, theme) ==
    IF \E k \in DOMAIN themes : themes[k].id = theme.id
    THEN [k \in DOMAIN themes |->
             IF themes[k].id = theme.id THEN theme ELSE themes[k]]
    ELSE Append(themes, theme)

ThemesUnchanged ==
    UNCHANGED <<backend, rooms, items, roomItems, pc, req, pool, result, calls,
                del, ui>>

\* MemStorage.createColorTheme(theme): the first theme of an empty store is
\* made the default, a theme created as default takes the default from the
\* others; then the counter moves on
CreateColorTheme(theme) ==
    /\ ids.colorThemeId <= Len(SampleThemes) + MaxCreated
    /\ LET isDefault == Get(theme, "isDefault", FALSE)
           newTheme == [id |-> ids.colorThemeId,
                        isDefault |-> isDefault \/ colorThemes = <<>>]
       IN  colorThemes' = SetTheme(IF isDefault THEN Undefaulted(0) ELSE colorThemes,
                                   newTheme)
    /\ ids' = [ids EXCEPT !.colorThemeId = @ + 1]
    /\ status' = "ok"
    /\ ThemesUnchanged

\* updateColorTheme(id, themeUpdate): undefined without the theme; an update
\* that turns the theme into the default takes the default from the others
UpdateColorTheme(id, themeUpdate) ==
    /\ LET theme == ThemeById(id)
       IN  IF theme = <<>>
           THEN /\ status' = "absent"
                /\ colorThemes' = colorThemes
           ELSE /\ colorThemes' =
                       SetTheme(IF /\ Get(themeUpdate, "isDefault", FALSE)
                                   /\ themeUpdate.isDefault # theme[1].isDefault
                                THEN Undefaulted(id) ELSE colorThemes,
                                Spread(theme[1], themeUpdate))
                /\ status' = "ok"
    /\ ids' = ids
    /\ ThemesUnchanged

\* deleteColorTheme(id): false without the theme, rejected for the default
\* theme, else the theme goes
DeleteColorTheme(id) ==
    /\ LET theme == ThemeById(id)
       IN  IF theme = <<>>
           THEN /\ status' = "absent"
                /\ colorThemes' = colorThemes
           ELSE IF theme[1].isDefault
                THEN /\ status' = "error"
                     /\ colorThemes' = colorThemes
                ELSE /\ colorThemes' = SelectSeq(colorThemes, LAMBDA t : t.id # id)
                     /\ status' = "ok"
    /\ ids' = ids
    /\ ThemesUnchanged

\* setDefaultColorTheme(id): undefined without the theme, else the theme is
\* the default and no other is
SetDefaultColorTheme(id) ==
    /\ LET theme == ThemeById(id)
       IN  IF theme = <<>>
           THEN /\ status' = "absent"
                /\ colorThemes' = colorThemes
           ELSE /\ colorThemes' = SetTheme(Undefaulted(0),
                                           [theme[1] EXCEPT !.isDefault = TRUE])
                /\ status' = "ok"
    /\ ids' = ids
    /\ ThemesUnchanged

InitThemes ==
    /\ backend = "mem"
    /\ rooms = <<>>
    /\ items = {}
    /\ roomItems = <<>>
    /\ pc = "idle"
    /\ req = NoReq
    /\ pool = <<>>
    /\ result = <<>>
    /\ status = "none"
    /\ calls = <<>>
    /\ del = NoDelete
    /\ colorThemes = SampleThemes
    /\ ids = [Counters(rooms, items, roomItems) EXCEPT
                 !.colorThemeId = Len(SampleThemes) + 1]
    /\ ui = NoGame

NextThemes ==
    \/ \E theme \in ThemeInputs : CreateColorTheme(theme)
    \/ \E id \in ThemeIds : SetDefaultColorTheme(id)
    \/ \E id \in ThemeIds : DeleteColorTheme(id)
    \/ \E id \in ThemeIds, themeUpdate \in ThemeInputs : UpdateColorTheme(id, themeUpdate)

SpecThemes == InitThemes /\ [][NextThemes]_vars

----------------------------------------------------------------------------
(* The lottery screen (LotteryGame): the state of the component, the       *)
(* random-items requests it has sent and the timers it has set.  A request *)
(* is answered, and a timer fires, at any later moment.  The rooms on      *)
(* offer come from the useLotteryGame hook.                                *)

\* the lotteries a run starts
MaxRounds == 2

\* the requests, and the timers, waiting at one moment
MaxPending == 2

\* setRandomItems([])
NoItems == [roomId |-> 0, round |-> 0]

\* the rooms of the screen: two that show items, one that shows none
GameRooms ==
    <<[id |-> 1, probability |-> 1, itemsToShow |-> 3, randomizeRepeats |-> TRUE],
      [id |-> 2, probability |-> 1, itemsToShow |-> 2, randomizeRepeats |-> TRUE],
      [id |-> 3, probability |-> 1, itemsToShow |-> 0, randomizeRepeats |-> TRUE]>>

\* useState's initial values; round counts the lotteries started, and each
\* request carries the room and the round it was sent for
ReadyGame ==
    [gameState |-> "ready", selectedRoomId |-> 0, randomItems |-> NoItems,
     selectedRooms |-> {}, round |-> 0, fetches |-> <<>>,
     awaiting |-> FALSE, toSelected |-> 0, toInterior |-> 0]

\* selectedRooms.find(room => room.id === selectedRoomId)
SelectedRoom ==
    IF ui.selectedRoomId \in ui.selectedRooms THEN RoomById(ui.selectedRoomId)
    ELSE <<>>

GameUnchanged ==
    UNCHANGED <<backend, rooms, items, roomItems, pc, req, pool, result, status,
                calls, del, ids, colorThemes>>

\* handleStartLottery up to its await, from the button of the ready screen
HandleStartLottery ==
    /\ ui.gameState = "ready"
    /\ ui.round < MaxRounds
    /\ ui' = [ui EXCEPT !.gameState = "selecting", !.round = @ + 1,
                        !.awaiting = TRUE]
    /\ GameUnchanged

\* getRandomRooms() resolves with the rooms on offer, and handleStartLottery
\* sets its timer of two seconds
RoomsOffered(offer) ==
    /\ ui.awaiting
    /\ offer # {}
    /\ ui' = [ui EXCEPT !.selectedRooms = offer, !.awaiting = FALSE,
                        !.toSelected = @ + 1]
    /\ GameUnchanged

\* the timer of handleStartLottery fires
SelectedTimeout ==
    /\ ui.toSelected > 0
    /\ ui' = [ui EXCEPT !.gameState = "selected", !.toSelected = @ - 1]
    /\ GameUnchanged

\* handleSelectRoom(roomId), from a RoomCard of the selected screen: a card
\* answers the click unless another room is selected.  A room that shows
\* items gets a random-items request, another one the empty list; the timer
\* of the interior is set.
HandleSelectRoom(roomId) ==
    /\ ui.gameState = "selected"
    /\ roomId \in ui.selectedRooms
    /\ ui.selectedRoomId \in {0, roomId}
    /\ Len(ui.fetches) < MaxPending
    /\ ui.toInterior < MaxPending
    /\ LET room == RoomById(roomId)
       IN  ui' = [ui EXCEPT
                     !.selectedRoomId = roomId,
                     !.fetches = IF room # <<>> /\ room[1].itemsToShow > 0
                                 THEN Append(@, [roomId |-> roomId, round |-> ui.round])
                                 ELSE @,
                     !.randomItems = IF room # <<>> /\ room[1].itemsToShow > 0
                                     THEN @ ELSE NoItems,
                     !.toInterior = @ + 1]
    /\ GameUnchanged

\* s without its k-th entry
RemoveAt(s, k) == SubSeq(s, 1, k - 1) \o SubSeq(s, k + 1, Len(s))

\* the k-th waiting request is answered: setRandomItems(data)
FetchResponse(k) ==
    /\ k \in DOMAIN ui.fetches
    /\ ui' = [ui EXCEPT !.randomItems = ui.fetches[k],
                        !.fetches = RemoveAt(@, k)]
    /\ GameUnchanged

\* the k-th waiting request fails: the error is logged
FetchError(k) ==
    /\ k \in DOMAIN ui.fetches
    /\ ui' = [ui EXCEPT !.fetches = RemoveAt(@, k)]
    /\ GameUnchanged

\* a timer of handleSelectRoom fires
InteriorTimeout ==
    /\ ui.toInterior > 0
    /\ ui' = [ui EXCEPT !.gameState = "interior", !.toInterior = @ - 1]
    /\ GameUnchanged

\* handleProceedToItems, from the button of the interior screen
HandleProceedToItems ==
    /\ ui.gameState = "interior"
    /\ SelectedRoom # <<>>
    /\ ui' = [ui EXCEPT !.gameState = "revealing"]
    /\ GameUnchanged

\* handleRestart, from the button of the reveal screen; resetGame() is the
\* hook's and either empties the rooms on offer or keeps them
HandleRestart ==
    /\ ui.gameState = "revealing"
    /\ SelectedRoom # <<>>
    /\ \E offer \in {{}, ui.selectedRooms} :
           ui' = [ui EXCEPT !.selectedRooms = offer, !.selectedRoomId = 0,
                            !.randomItems = NoItems, !.gameState = "ready"]
    /\ GameUnchanged

InitGame ==
    /\ backend = "mem"
    /\ rooms = GameRooms
    /\ items = {}
    /\ roomItems = <<>>
    /\ pc = "idle"
    /\ req = NoReq
    /\ pool = <<>>
    /\ result = <<>>
    /\ status = "none"
    /\ calls = <<>>
    /\ del = NoDelete
    /\ ids = Counters(rooms, items, roomItems)
    /\ colorThemes = <<>>
    /\ ui = ReadyGame

NextGame ==
    \/ HandleStartLottery
    \/ \E offer \in SUBSET Ids(rooms) : RoomsOffered(offer)
    \/ SelectedTimeout
    \/ \E roomId \in Ids(rooms) : HandleSelectRoom(roomId)
    \/ \E k \in 1..MaxPending : FetchResponse(k)
    \/ \E k \in 1..MaxPending : FetchError(k)
    \/ InteriorTimeout
    \/ HandleProceedToItems
    \/ HandleRestart

SpecGame == InitGame /\ [][NextGame]_vars

----------------------------------------------------------------------------
(* The claims *)

RoomsDone == pc = "done" /\ req.op = "getRandomRooms"

ItemsDone == pc = "done" /\ req.op = "getRandomRoomItems" /\ status = "ok"

\* the pool of the running item draw and its two parts
AllRoomItems == RoomItemsWithDetails(req.roomId)

GuaranteedItems == GuaranteedOf(AllRoomItems)

RandomItems == RandomOf(AllRoomItems)

\* the first n entries of s, none when n <= 0
FirstN(s, n) == SubSeq(s, 1, Min(Max(n, 0), Len(s)))

\* C1: the sequence returned by the room selector contains no room id
\* twice, for every catalog, count, backend and shuffle outcome.
C1_NoRepeatedRoom ==
    RoomsDone =>
        \A i, j \in DOMAIN result : i # j => result[i].id # result[j].id

\* C1 witness: two or more rooms were returned although the shuffled pool
\* began with two copies of one room, so the walk skipped a seen room.
C1_Witness ==
    /\ RoomsDone
    /\ Len(result) >= 2
    /\ Len(pool) >= 2
    /\ pool[1].id = pool[2].id

\* C2 (as claimed): for every count >= 0, count = 0 included, and every
\* catalog whose rooms all have probability >= 1, the room selector returns
\* exactly min(count, number of rooms) rooms.
C2_ExactCount ==
    (/\ RoomsDone
     /\ req.count >= 0
     /\ \A i \in DOMAIN rooms : rooms[i].probability >= 1)
        => Len(result) = Min(req.count, Len(rooms))

\* C3 (as claimed): called with count <= 0 the room selector returns the
\* empty sequence and raises no error, also when a negative count arrives
\* through GET /rooms/random?count=N.
C3_NonPositiveCountEmpty ==
    (RoomsDone /\ req.count <= 0) => (result = <<>> /\ status = "ok")

\* C4 (as claimed): called with count <= 0 the item drafter returns the
\* empty sequence, for every pool, two or more guaranteed assignments
\* included.
C4_DrafterNonPositiveEmpty ==
    (ItemsDone /\ req.count <= 0) => result = <<>>

\* C5: with g guaranteed assignments and count >= g, every guaranteed
\* assignment appears in the item drafter's result.
C5_AllGuaranteedAppear ==
    (ItemsDone /\ req.count >= Len(GuaranteedItems))
        => \A i \in DOMAIN GuaranteedItems :
              \E j \in DOMAIN result : result[j] = GuaranteedItems[i]

\* C5 witness: a draw with a guaranteed assignment and room for more, whose
\* remaining slots were filled from the shuffled pool.
C5_Witness ==
    /\ ItemsDone
    /\ Len(GuaranteedItems) >= 1
    /\ req.count > Len(GuaranteedItems)
    /\ pool # <<>>
    /\ Len(result) = req.count

\* C6 (as claimed): with g guaranteed assignments and g > count the result
\* is exactly the first count guaranteed assignments in pool order, with no
\* other assignment.
C6_GuaranteedOverflow ==
    (ItemsDone /\ Len(GuaranteedItems) > req.count)
        => result = FirstN(GuaranteedItems, req.count)

\* the number of times the drafter's repeat rule lets an assignment appear,
\* as the claim reads it, and as the code reads it (maxRepeats || 1)
ClaimedCap(ri) == IF ri.canRepeat THEN ri.maxRepeats ELSE 1

CodeCap(ri) == IF ri.canRepeat THEN Max(1, ri.maxRepeats) ELSE 1

InScenario ==
    /\ ItemsDone
    /\ roomItems = ScenarioStore
    /\ req.count = 3
    /\ rooms[1].randomizeRepeats

\* C8 (as claimed): the pool being one non-guaranteed assignment with
\* canRepeat = true and maxRepeats = 3, count = 3 and randomizeRepeats =
\* true, the drafter returns that assignment three times.
C8_ScenarioThreeTimes ==
    InScenario => result = <<ScenarioStore[1], ScenarioStore[1], ScenarioStore[1]>>

\* C8 (amended): in that scenario the drafter returns the assignment once:
\* a pool with no more random assignments than open slots is appended as it
\* is, without repeats.
C8_ScenarioOnce ==
    InScenario => result = <<ScenarioStore[1]>>

\* C8 witness: the scenario's draw has returned.
C8_Witness == InScenario /\ Len(result) >= 1

\* C9 (as claimed): an assignment marked guaranteed always appears among
\* the items revealed for its room, whatever the room's itemsToShow.
C9_GuaranteedAlwaysRevealed ==
    (pc = "done" /\ req.via = "route" /\ status = "ok")
        => \A i \in DOMAIN GuaranteedItems :
              \E j \in DOMAIN result : result[j] = GuaranteedItems[i]

IsGuaranteed(ri) == ri.isGuaranteed

\* C10: the result is guaranteed assignments in pool order, all of them
\* when count >= g, followed by the weighted selection: no non-guaranteed
\* assignment precedes a guaranteed one.
C10_GuaranteedFirst ==
    ItemsDone =>
        LET front == SelectSeq(result, IsGuaranteed)
        IN  /\ \A i, j \in DOMAIN result :
                  (i < j /\ result[j].isGuaranteed) => result[i].isGuaranteed
            /\ front = FirstN(GuaranteedItems, Len(front))
            /\ req.count >= Len(GuaranteedItems) => front = GuaranteedItems

\* C10 witness: two guaranteed assignments and a random one, all returned.
C10_Witness ==
    /\ ItemsDone
    /\ Len(GuaranteedItems) = 2
    /\ Len(RandomItems) = 1
    /\ Len(result) = 3
    /\ ~roomItems[1].isGuaranteed

\* a draw of MemStorage's drafter that went through the shuffle and the loop
InLoop == ItemsDone /\ backend = "mem" /\ pool # <<>>

\* the loop of that draw: what it returned, its iterations, the itemPool left
Loop ==
    Consume(pool, {}, <<>>, req.count - Len(GuaranteedItems),
            RoomById(req.roomId)[1].randomizeRepeats, <<>>)

\* C12 (as claimed): the consumption loop ends after at most as many
\* iterations as the initial replication pool is long, for every pool,
\* pools whose repeatable assignments are queued again included.
C12_IterationBound == InLoop => Loop.iterations <= Len(pool)

\* what invocation p may return when it runs alone on the stored data
Alone(p) ==
    IF calls[p].op = "getRandomRooms"
    THEN {[result |-> drawn, status |-> "ok"] :
            drawn \in RoomDraws(rooms, calls[p].count)}
    ELSE IF RoomById(calls[p].roomId) = <<>>
    THEN {[result |-> <<>>, status |-> "error"]}
    ELSE {[result |-> drawn, status |-> "ok"] :
            drawn \in Drafts(RoomById(calls[p].roomId)[1],
                             RoomItemsWithDetails(calls[p].roomId),
                             calls[p].count)}

\* C13: two draws in flight side by side are independent: whatever the
\* interleaving, each returns what it could return alone on the same stored
\* data, and no step of a draw changes a stored room, item or assignment.
C13_Independent ==
    /\ [](\A p \in Invocations :
            calls[p].pc = "done" =>
                [result |-> calls[p].result, status |-> calls[p].status]
                    \in Alone(p))
    /\ [][rooms' = rooms /\ items' = items /\ roomItems' = roomItems]_vars

\* C13 witness: a room draw and an item draw for room 1 have both returned,
\* the item draw with a selection from the shuffled pool, after the room
\* draw had read a catalog of two rooms.
C13_Witness ==
    /\ calls[1].pc = "done" /\ calls[1].op = "getRandomRooms"
    /\ Len(calls[1].all) = 2 /\ Len(calls[1].result) = 1
    /\ calls[2].pc = "done" /\ calls[2].op = "getRandomRoomItems"
    /\ Len(calls[2].all) = 2 /\ Len(calls[2].result) = 1

\* C14 (as claimed): a random-items request whose room is not there is
\* answered 404, also when a deleteRoom lands between the route's check of
\* the room and the storage layer's own lookup: the storage layer's lookup
\* never fails on a request the route let through.
C14_MissingRoomIs404 ==
    (pc = "done" /\ req.op = "getRandomRoomItems" /\ req.via = "route")
        => status \in {"ok", "404"}

\* how often the assignment shifted in iteration i was taken before it
TakenBefore(trace, i) ==
    Cardinality({j \in 1..(i - 1) :
                    /\ trace[j].taken
                    /\ trace[j].roomItem.id = trace[i].roomItem.id})

\* C16 (as claimed): the repeat counter is kept for each assignment id: an
\* entry is taken or skipped by how often that same assignment was taken
\* before in this draw, never by what happened to another assignment, one
\* of the same room and the same item included.
C16_CounterPerAssignment ==
    InLoop =>
        \A i \in DOMAIN Loop.trace :
            Loop.trace[i].taken
                <=> TakenBefore(Loop.trace, i) < CodeCap(Loop.trace[i].roomItem)

\* C17: with fewer guaranteed assignments than count and no more random
\* ones than slots are left, the result is the guaranteed assignments
\* followed by every random one once, in pool order, whatever the shuffle,
\* canRepeat, maxRepeats and randomizeRepeats.
C17_AllRandomOnce ==
    ItemsDone =>
        LET all == AllRoomItems
            guaranteedItems == GuaranteedOf(all)
            randomItems == RandomOf(all)
        IN  (/\ Len(guaranteedItems) < req.count
             /\ Len(randomItems) <= req.count - Len(guaranteedItems))
                => result = guaranteedItems \o randomItems

\* C17 witness: a guaranteed assignment and a repeatable one with cap 2 in a
\* room that randomizes repeats, drawn with a slot to spare: both were
\* returned, each once.
C17_Witness ==
    /\ ItemsDone
    /\ rooms[1].randomizeRepeats
    /\ Len(GuaranteedItems) = 1
    /\ Len(RandomItems) = 1
    /\ RandomItems[1].canRepeat /\ RandomItems[1].maxRepeats = 2
    /\ req.count = 3
    /\ Len(result) = 2

\* C18 (as claimed): in the replication pool every non-guaranteed
\* assignment has exactly max(1, floor(probability / 10)) copies, for every
\* integer probability the store can hold, 0 and 1 to 9 included.
C18_CopiesByProbability ==
    InLoop =>
        \A k \in DOMAIN RandomItems :
            Occurrences(pool, RandomItems[k])
                = Max(1, RandomItems[k].probability \div 10)

Drawable(room) == room.probability >= 1

NotDrawable(room) == room.probability <= 0

Shifted(trace) == [i \in DOMAIN trace |-> trace[i].roomItem]

PushedBack(trace) ==
    LET requeued == SelectSeq(trace, LAMBDA it : it.requeued)
    IN  [i \in DOMAIN requeued |-> requeued[i].roomItem]

\* the weighted part of a result: what follows the guaranteed assignments
WeightedPart == SubSeq(result, Len(GuaranteedItems) + 1, Len(result))

\* with randomizeRepeats = false no entry is pushed back to the pool, so in
\* the weighted part an assignment appears at most min(its copies in the
\* initial pool, its repeat cap) times; and under either setting only an
\* entry that was taken is pushed back, never a skipped one: the entries
\* shifted and those left are the initial pool and the taken entries pushed
\* back
NoRequeueWithoutRandomize(Cap(_)) ==
    InLoop =>
        LET loop == Loop
            pushedBack == PushedBack(loop.trace)
            randomItems == RandomItems
            weightedPart == WeightedPart
        IN  /\ ~RoomById(req.roomId)[1].randomizeRepeats =>
                  /\ pushedBack = <<>>
                  /\ \A k \in DOMAIN randomItems :
                        Occurrences(weightedPart, randomItems[k])
                            <= Min(Occurrences(pool, randomItems[k]),
                                   Cap(randomItems[k]))
            /\ \A i \in DOMAIN loop.trace :
                  loop.trace[i].requeued => loop.trace[i].taken
            /\ Shifted(loop.trace) \o loop.itemPool = pool \o pushedBack

\* C20 (as claimed): with randomizeRepeats = false no entry is pushed back,
\* so in the weighted part each assignment appears at most min(its initial
\* pool copies, its repeat cap maxRepeats) times; a skipped entry is never
\* pushed back under either setting.
C20_NoRequeueClaimedCap == NoRequeueWithoutRandomize(ClaimedCap)

\* C20 (amended): the same, the repeat cap of a repeatable assignment being
\* max(1, maxRepeats): a maxRepeats of 0 counts as 1.
C20_NoRequeueCodeCap == NoRequeueWithoutRandomize(CodeCap)

\* C20 witness: in a room that does not randomize repeats a repeatable
\* assignment with two pool copies and cap 2 was taken twice, and a third
\* entry was skipped as the loop went on.
C20_Witness ==
    /\ InLoop
    /\ ~RoomById(req.roomId)[1].randomizeRepeats
    /\ \E k \in DOMAIN RandomItems :
          /\ RandomItems[k].canRepeat
          /\ Occurrences(pool, RandomItems[k]) = 2
          /\ Occurrences(WeightedPart, RandomItems[k]) = 2
    /\ LET loop == Loop IN \E i \in DOMAIN loop.trace : ~loop.trace[i].taken

C22_SameItemDraw ==
    ItemsDone =>
        LET room == RoomById(req.roomId)[1]
        IN  /\ backend = "db" => result \in MemDrafts(room, AllRoomItems, req.count)
            /\ backend = "mem" => result \in DbDrafts(room, AllRoomItems, req.count)

\* the rooms MemStorage and DatabaseStorage select from the same catalog with
\* the same count and the same shuffled pool
MemRooms == MemSelectRooms(rooms, pool, req.count)

DbRooms ==
    IF Len(rooms) <= req.count THEN rooms
    ELSE DbSelectRooms(rooms, pool, req.count)

\* C23 (as claimed): the two backends implement the same room draw: for the
\* same catalog (rooms with probability <= 0 included), the same count >= 1
\* and the same shuffle outcome, DatabaseStorage.getRandomRooms returns the
\* same set of rooms, of the same size, as MemStorage.getRandomRooms.
C23_SameRoomDraw ==
    (RoomsDone /\ backend = "mem" /\ req.count >= 1)
        => /\ SeqToSet(DbRooms) = SeqToSet(MemRooms)
           /\ Len(DbRooms) = Len(MemRooms)

\* the stored assignments whose room or item is missing
Dangling ==
    {k \in DOMAIN roomItems :
        \/ RoomById(roomItems[k].roomId) = <<>>
        \/ roomItems[k].itemId \notin items}

\* C24: in the in-memory store, after any sequence of createRoom, deleteRoom,
\* createItem, deleteItem, assignItemToRoom, updateRoomItemAssignment and
\* removeItemFromRoom, every stored assignment's roomId names a stored room
\* and its itemId a stored item.
C24_ReferentialIntegrity == backend = "mem" => Dangling = {}

\* an assignment is stored after a room and an item went, the assignments of
\* both with them
C24_Witness ==
    /\ backend = "mem"
    /\ roomItems # <<>>
    /\ Len(rooms) < ids.roomId - 1
    /\ Cardinality(items) < ids.itemId - 1
    /\ Len(roomItems) < ids.roomItemId - 1

\* C25: with count > 0, g < count guaranteed assignments and more than
\* count - g non-guaranteed ones, the drafter's result has exactly count
\* entries, whatever the shuffle and whatever assignments the store holds.
C25_ExactlyCount ==
    (/\ ItemsDone
     /\ req.count > 0
     /\ Len(GuaranteedItems) < req.count
     /\ Len(RandomItems) > req.count - Len(GuaranteedItems))
        => Len(result) = req.count

\* the same with no item assigned twice
C25_DistinctItems ==
    Cardinality(ItemIdsOf(roomItems)) = Len(roomItems) => C25_ExactlyCount

\* C26: after any sequence of assignItemToRoom calls a room holds at most
\* one assignment per item, in both storage backends: assigning an item the
\* room already has updates the assignment instead of adding a second one.
C26_OneAssignmentPerItem ==
    \A i, j \in DOMAIN roomItems :
        (roomItems[i].roomId = roomItems[j].roomId
         /\ roomItems[i].itemId = roomItems[j].itemId) => i = j

\* the same of DatabaseStorage alone
C26_DbOneAssignmentPerItem == backend = "db" => C26_OneAssignmentPerItem

\* the assignment a request has just stored
Created == roomItems'[Len(roomItems')]

\* C27: the isGuaranteed flag posted to /api/rooms/:roomId/items is stored on
\* the assignment the request creates, so that the next draw of the room
\* treats the assignment as guaranteed.
C27_GuaranteedFlagStored ==
    [][\A roomId \in CreatedIds, body \in Bodies :
          (/\ PostRoomItems(roomId, body)
           /\ status' = "201"
           /\ "isGuaranteed" \in DOMAIN body
           /\ Len(roomItems') > Len(roomItems))
              => Created.isGuaranteed = body.isGuaranteed]_vars

\* the room a createRoom has just stored
CreatedRoom == rooms'[Len(rooms')]

\* createRoom and updateRoom with itemsToShow = 0 store the zero
ZeroIsStored ==
    /\ \A room \in ConfiguredRooms :
          (CreateRoom(room, {}) /\ Get(room, "itemsToShow", 3) = 0)
              => CreatedRoom.itemsToShow = 0
    /\ \A id \in CreatedIds :
          (UpdateRoom(id, [itemsToShow |-> 0]) /\ RoomById(id) # <<>>)
              => \A k \in DOMAIN rooms' : rooms'[k].id = id => rooms'[k].itemsToShow = 0

\* a room that shows no items is answered with the empty list, no draw run
ZeroSkipsDraw ==
    \A k \in DOMAIN rooms :
        (/\ rooms[k].itemsToShow = 0
         /\ req.op = "getRandomRoomItems" /\ req.via = "route"
         /\ req.roomId = rooms[k].id)
            => /\ pc = "done"
               /\ status = "ok"
               /\ result = <<>>
               /\ pool = <<>>

\* C28: a room configured with itemsToShow = 0 never yields items: createRoom
\* and updateRoom with itemsToShow = 0 leave the room with zero items to
\* show, and GET random-items of such a room returns the empty list without
\* running the draw.
C28_ZeroShowsNothing == []ZeroSkipsDraw /\ [][ZeroIsStored]_vars

\* the part of it that is about updateRoom and the route
C28_UpdateRoomZero ==
    /\ []ZeroSkipsDraw
    /\ [][\A id \in CreatedIds :
            (UpdateRoom(id, [itemsToShow |-> 0]) /\ RoomById(id) # <<>>)
                => \A k \in DOMAIN rooms' :
                       rooms'[k].id = id => rooms'[k].itemsToShow = 0]_vars

\* the stored themes that are the default
Defaults == {k \in DOMAIN colorThemes : colorThemes[k].isDefault}

ExactlyOneDefault == colorThemes # <<>> => Cardinality(Defaults) = 1

\* deleteColorTheme of the default theme fails and leaves the store as it was
DeleteDefaultFails ==
    \A id \in ThemeIds :
        (/\ DeleteColorTheme(id)
         /\ \E k \in Defaults : colorThemes[k].id = id)
            => status' = "error" /\ colorThemes' = colorThemes

\* C29: after any sequence of createColorTheme, updateColorTheme,
\* setDefaultColorTheme and deleteColorTheme on the in-memory theme store,
\* exactly one theme is the default whenever a theme exists, and
\* deleteColorTheme of the default theme fails leaving the store unchanged.
C29_ExactlyOneDefault == []ExactlyOneDefault /\ [][DeleteDefaultFails]_vars

\* the same with at most one default in place of exactly one
C29_AtMostOneDefault ==
    [](Cardinality(Defaults) <= 1) /\ [][DeleteDefaultFails]_vars

\* the items the reveal screen shows: those of randomItems, when the
\* selected room shows items and the list is not empty
Revealed ==
    IF /\ ui.gameState = "revealing"
       /\ SelectedRoom # <<>>
       /\ SelectedRoom[1].itemsToShow # 0
    THEN ui.randomItems ELSE NoItems

\* C30: the items shown in the reveal stage are the response of the
\* random-items request sent for the selected room in the running round,
\* whenever the responses arrive: a late response of an earlier selection or
\* an earlier round is never shown.
C30_RevealShowsCurrent ==
    Revealed # NoItems
        => Revealed.roomId = ui.selectedRoomId /\ Revealed.round = ui.round

\* the same within the first round
C30_FirstRound == ui.round <= 1 => C30_RevealShowsCurrent
====
